---- MODULE Spec2Model ----
(***************************************************************************)
(* Verification model of the "Talking Practice" web application.           *)
(*                                                                         *)
(* Each React component / hook is one record-valued variable whose fields  *)
(* are the component's state cells (useState), refs (useRef) and the       *)
(* values its pending callbacks closed over.  A callback created during a  *)
(* render sees the state of THAT render: such captured values are kept in  *)
(* the "cap" fields and are read by the timer / event callbacks instead of *)
(* the live state.                                                         *)
(***************************************************************************)
EXTENDS Integers, Sequences, FiniteSets, TLC

VARIABLES mic, chat, req, users, talk_history, fs, bot, notes, voice, acct, sp, lang, did

vars == <<mic, chat, req, users, talk_history, fs, bot, notes, voice, acct, sp, lang, did>>

\* the components an action of one component leaves alone
MicOthers == UNCHANGED <<chat, req, users, talk_history, fs, bot, notes, voice, acct, sp, lang, did>>
ChatOthers == UNCHANGED <<mic, users, talk_history, fs, bot, notes, voice, acct, sp, lang, did>>
StoreOthers == UNCHANGED <<mic, chat, req, bot, notes, voice, acct, sp, lang, did>>
BotOthers == UNCHANGED <<mic, chat, req, users, talk_history, fs, notes, voice, acct, sp, lang, did>>
NotesOthers == UNCHANGED <<mic, chat, req, users, talk_history, fs, bot, voice, acct, sp, lang, did>>
VoiceOthers == UNCHANGED <<mic, chat, req, users, bot, notes, acct, sp, lang, did>>
AcctOthers == UNCHANGED <<mic, chat, req, bot, notes, voice, sp, lang, did>>
PageOthers == UNCHANGED <<mic, chat, req, bot, notes, voice, acct, lang, did>>
LangOthers == UNCHANGED <<mic, chat, req, users, talk_history, fs, bot, notes, voice, acct, sp, did>>
DidOthers == UNCHANGED <<mic, chat, req, users, talk_history, fs, bot, notes, voice, acct, sp, lang>>

(***************************************************************************)
(* MicButton (src/unnamed/part_000)                                        *)
(*                                                                         *)
(* Audio levels are the normalized level times 100.  Time advances in      *)
(* ticks of TickMs milliseconds (the period of the duration timer).        *)
(***************************************************************************)
maxDuration == 60
autoStopSilence == 2000
TickMs == 1000
SILENCE_THRESHOLD == 5
MIN_SPEECH_LEVEL == 10

\* bounds of the model
MaxElapsed == 63
MaxCalls == 2

Levels == {0, 4, 5, 10, 20}
AutoStopTicks == autoStopSilence \div TickMs

Cap(n, c) == IF n >= c THEN c ELSE n

MicInit ==
  mic = [ isRecording        |-> FALSE,
          hasSpeechStarted   |-> FALSE,
          recordingDuration  |-> 0,
          isPermissionDenied |-> FALSE,
          pending            |-> FALSE,     \* getUserMedia not yet settled
          recorder           |-> "null",    \* mediaRecorderRef / its state
          timer              |-> FALSE,     \* timerIntervalRef armed
          raf                |-> FALSE,     \* animationFrameRef loop running
          silenceTimeout     |-> -1,        \* ticks left, -1 = not armed
          lastAudioLevel     |-> 0,
          cap                |-> [isRecording |-> FALSE, hasSpeechStarted |-> FALSE],
          elapsed            |-> 0,         \* ticks since the recorder started
          level              |-> 0,         \* level the analyser would report
          speechSeen         |-> FALSE,     \* a level > 0.1 occurred in this recording
          quiet              |-> 0,         \* ticks the level stayed < 0.05 after speech
          completeCalls      |-> 0,         \* onRecordingComplete invocations
          cancelCalls        |-> 0,         \* onRecordingCancel invocations
          cancelled          |-> FALSE ]    \* the current recording was cancelled

\* stopRecording as seen by a closure whose render had isRecording = isRec
stopRecording(m, isRec) ==
  IF ~isRec \/ m.recorder = "null" THEN m
  ELSE IF m.recorder = "recording" THEN [m EXCEPT !.recorder = "stopping"]
  ELSE m

\* checkSilence(audioLevel), run by a closure that captured m.cap
checkSilence(m, audioLevel) ==
  LET m1 == IF audioLevel > MIN_SPEECH_LEVEL
            THEN [m EXCEPT !.hasSpeechStarted = TRUE,
                           !.lastAudioLevel = audioLevel,
                           !.silenceTimeout = -1]
            ELSE m
      m2 == IF m.cap.hasSpeechStarted
            THEN IF audioLevel < SILENCE_THRESHOLD /\ m1.lastAudioLevel > SILENCE_THRESHOLD
                 THEN IF m1.silenceTimeout = -1
                      THEN [m1 EXCEPT !.silenceTimeout = AutoStopTicks]
                      ELSE m1
                 ELSE IF audioLevel >= SILENCE_THRESHOLD /\ m1.silenceTimeout # -1
                      THEN [m1 EXCEPT !.silenceTimeout = -1]
                      ELSE m1
            ELSE m1
  IN [m2 EXCEPT !.lastAudioLevel = audioLevel]

\* updateLevel: one animation frame of the visualizer
updateLevel(m, level) == [checkSilence(m, level) EXCEPT !.raf = TRUE]

\* visualizeAudio, called at the end of startRecording
visualizeAudio(m) ==
  IF ~m.cap.isRecording THEN m ELSE updateLevel(m, m.level)

\* click on the microphone button while not recording: startRecording up to
\* the await of getUserMedia; the closures of this render are captured
MicStartRecording ==
  /\ MicOthers
  /\ ~mic.isRecording /\ ~mic.isPermissionDenied /\ ~mic.pending
  /\ mic.recorder # "stopping"
  /\ mic' = [mic EXCEPT !.pending = TRUE,
                        !.cap = [isRecording |-> mic.isRecording,
                                 hasSpeechStarted |-> mic.hasSpeechStarted]]

\* getUserMedia resolved: the rest of startRecording
MicMediaGranted ==
  /\ MicOthers
  /\ mic.pending
  /\ mic' = visualizeAudio([mic EXCEPT !.pending = FALSE,
                                       !.recorder = "recording",
                                       !.isRecording = TRUE,
                                       !.timer = TRUE,
                                       !.elapsed = 0,
                                       !.speechSeen = FALSE,
                                       !.quiet = 0,
                                       !.cancelled = FALSE])

\* getUserMedia rejected
MicMediaDenied ==
  /\ MicOthers
  /\ mic.pending
  /\ mic' = [mic EXCEPT !.pending = FALSE, !.isPermissionDenied = TRUE]

\* an animation frame: the microphone level is l; the visualizer callback
\* runs only if the loop was started
MicAudioFrame(l) ==
  /\ MicOthers
  /\ mic.recorder = "recording"
  /\ LET g == [mic EXCEPT !.level = l,
                          !.speechSeen = mic.speechSeen \/ l > MIN_SPEECH_LEVEL,
                          !.quiet = IF l >= SILENCE_THRESHOLD THEN 0 ELSE mic.quiet]
     IN mic' = IF mic.raf THEN updateLevel(g, l) ELSE g

\* TickMs milliseconds pass: the interval callback and a due silence timeout run
MicTick ==
  /\ MicOthers
  /\ mic.recorder = "recording"
  /\ mic.elapsed < MaxElapsed
  /\ LET g == [mic EXCEPT !.elapsed = mic.elapsed + 1,
                          !.quiet = IF mic.speechSeen /\ mic.level < SILENCE_THRESHOLD
                                    THEN Cap(mic.quiet + 1, AutoStopTicks + 1)
                                    ELSE 0]
         t == IF g.timer
              THEN LET d == [g EXCEPT !.recordingDuration = g.elapsed]
                   IN IF g.elapsed >= maxDuration
                      THEN stopRecording(d, d.cap.isRecording)
                      ELSE d
              ELSE g
         s == IF t.silenceTimeout > 1
              THEN [t EXCEPT !.silenceTimeout = t.silenceTimeout - 1]
              ELSE IF t.silenceTimeout = 1
                   THEN LET f == [t EXCEPT !.silenceTimeout = 0]
                        IN IF f.cap.isRecording
                           THEN stopRecording(f, f.cap.isRecording)
                           ELSE f
                   ELSE t
     IN mic' = s

\* click on the button while it shows the stop icon (current render)
MicStopClick ==
  /\ MicOthers
  /\ mic.isRecording
  /\ mic.recorder = "recording"
  /\ mic' = stopRecording(mic, mic.isRecording)

\* click on the cancel button (current render): cancelRecording
MicCancelClick ==
  /\ MicOthers
  /\ mic.isRecording
  /\ mic.recorder = "recording"
  /\ mic' = [stopRecording(mic, mic.isRecording) EXCEPT
               !.cancelCalls = Cap(mic.cancelCalls + 1, MaxCalls),
               !.cancelled = TRUE]

\* mediaRecorder.onstop
MicOnStop ==
  /\ MicOthers
  /\ mic.recorder = "stopping"
  /\ mic' = [mic EXCEPT !.recorder = "inactive",
                        !.completeCalls = Cap(mic.completeCalls + 1, MaxCalls),
                        !.isRecording = FALSE,
                        !.recordingDuration = 0,
                        !.hasSpeechStarted = FALSE,
                        !.raf = FALSE,
                        !.timer = FALSE,
                        !.silenceTimeout = -1]

MicNext ==
  \/ MicStartRecording
  \/ MicMediaGranted
  \/ MicMediaDenied
  \/ \E l \in Levels : MicAudioFrame(l)
  \/ MicTick
  \/ MicStopClick
  \/ MicCancelClick
  \/ MicOnStop

(***************************************************************************)
(* useChat (src/unnamed/part_001)                                          *)
(*                                                                         *)
(* A string is a sequence of symbols; "" is the empty sequence.  req[r] is *)
(* the r-th addMessage call for a user message: its position, the          *)
(* variables of its handleStreamingRequest / handleStandardRequest frame   *)
(* and a record of what it reported.                                       *)
(***************************************************************************)
maxMessagesToStore == 100

\* bounds of the model
MaxReq == 2
MaxChunks == 3

Requests == 1..MaxReq

\* decoded chunk texts a server may send
ChunkTexts == {"a", "1", "{\"choices\":[{\"delta\":{\"content\":\"d\"}}]}"}

\* response bodies of a non-streaming request
BodyTexts == {"{\"content\":\"c\"}"}

\* JSON.parse restricted to ChunkTexts: ok = FALSE stands for a SyntaxError
JSONParse(t) ==
  CASE t = "1" -> [ok |-> TRUE, isNull |-> FALSE, content |-> <<>>, delta |-> <<>>]
    [] t = "null" -> [ok |-> TRUE, isNull |-> TRUE, content |-> <<>>, delta |-> <<>>]
    [] t = "{\"content\":\"c\"}" ->
         [ok |-> TRUE, isNull |-> FALSE, content |-> <<"c">>, delta |-> <<>>]
    [] t = "{\"choices\":[{\"delta\":{\"content\":\"d\"}}]}" ->
         [ok |-> TRUE, isNull |-> FALSE, content |-> <<>>, delta |-> <<"d">>]
    [] OTHER -> [ok |-> FALSE, isNull |-> FALSE, content |-> <<>>, delta |-> <<>>]

\* the content the stream loop takes from one decoded chunk
ChunkContent(t) ==
  LET parsed == JSONParse(t)
  IN IF parsed.ok /\ ~parsed.isNull
     THEN IF parsed.content # <<>> THEN parsed.content
          ELSE IF parsed.delta # <<>> THEN parsed.delta
          ELSE <<>>
     ELSE <<t>>

ReqIdle ==
  [ phase |-> "idle", assistantId |-> 0, accumulatedContent |-> <<>>,
    chunks |-> <<>>, aborted |-> FALSE, abortedIn |-> "none",
    errorSet |-> "", onError |-> "", loadingAtEnd |-> TRUE ]
    \* errorSet / onError: the argument of setError / onError, "" if not called

\* the hook after its first render, for either value of streamingEnabled
ChatInit ==
  /\ chat \in { [ messages |-> <<>>, isLoading |-> FALSE, error |-> "",
                  abortController |-> 0, nextId |-> 1, streamingEnabled |-> b ]
                : b \in BOOLEAN }
  /\ req = [r \in Requests |-> ReqIdle]

\* the hook with its default options, when it takes no part
ChatIdle ==
  /\ chat = [ messages |-> <<>>, isLoading |-> FALSE, error |-> "",
              abortController |-> 0, nextId |-> 1, streamingEnabled |-> TRUE ]
  /\ req = [r \in Requests |-> ReqIdle]

\* the hook after maxMessagesToStore / 2 completed exchanges
ChatFull ==
  /\ chat \in { [ messages |-> [i \in 1..maxMessagesToStore |->
                                  [id |-> i, content |-> <<"hi">>,
                                   role |-> IF i % 2 = 1 THEN "user" ELSE "assistant",
                                   isLoading |-> FALSE, error |-> ""]],
                  isLoading |-> FALSE, error |-> "", abortController |-> 0,
                  nextId |-> maxMessagesToStore + 1, streamingEnabled |-> b ]
                : b \in BOOLEAN }
  /\ req = [r \in Requests |-> ReqIdle]

createMessage(id, content, role) ==
  [id |-> id, content |-> content, role |-> role, isLoading |-> FALSE, error |-> ""]

RemoveAt(s, i) == SubSeq(s, 1, i - 1) \o SubSeq(s, i + 1, Len(s))

\* the updater of the first setMessages of addMessage
AppendTruncated(prevMessages, newMessage) ==
  LET truncatedMessages ==
        IF Len(prevMessages) >= maxMessagesToStore
        THEN IF \E i \in 1..Len(prevMessages) : prevMessages[i].role = "system"
             THEN RemoveAt(prevMessages, 2)
             ELSE Tail(prevMessages)
        ELSE prevMessages
  IN Append(truncatedMessages, newMessage)

\* a stream update that forgets to compare the message id
SetContent_AllAssistant(prevMessages, id, c) ==
  [i \in 1..Len(prevMessages) |->
     IF prevMessages[i].role = "assistant"
     THEN [prevMessages[i] EXCEPT !.content = c, !.isLoading = FALSE]
     ELSE prevMessages[i]]

\* prevMessages.map(m => m.id === id ? {...m, content: c, isLoading: false} : m)
SetContent(prevMessages, id, c) ==
  [i \in 1..Len(prevMessages) |->
     IF prevMessages[i].id = id
     THEN [prevMessages[i] EXCEPT !.content = c, !.isLoading = FALSE]
     ELSE prevMessages[i]]

\* prevMessages.map(m => m.id === id ? {...m, error: e, isLoading: false} : m)
SetError(prevMessages, id, e) ==
  [i \in 1..Len(prevMessages) |->
     IF prevMessages[i].id = id
     THEN [prevMessages[i] EXCEPT !.error = e, !.isLoading = FALSE]
     ELSE prevMessages[i]]

\* addMessage(content) for a user message, up to the await of fetch
ChatAddMessage(r) ==
  /\ ChatOthers
  /\ req[r].phase = "idle"
  /\ \A q \in Requests : q < r => req[q].phase # "idle"
  /\ LET newMessage == createMessage(chat.nextId, <<"hi">>, "user")
         assistantPlaceholder ==
           [createMessage(chat.nextId + 1, <<>>, "assistant") EXCEPT !.isLoading = TRUE]
     IN /\ chat' = [chat EXCEPT
              !.messages = Append(AppendTruncated(chat.messages, newMessage),
                                  assistantPlaceholder),
              !.isLoading = TRUE,
              !.error = "",
              !.abortController = r,
              !.nextId = chat.nextId + 2]
        /\ req' = [req EXCEPT ![r] = [ReqIdle EXCEPT !.phase = "fetching",
                                                     !.assistantId = chat.nextId + 1]]

\* the catch block of addMessage followed by setIsLoading(false)
AddMessageCatch(r, errorMessage) ==
  /\ chat' = [chat EXCEPT
       !.messages = SetError(chat.messages, req[r].assistantId, errorMessage),
       !.error = errorMessage,
       !.isLoading = FALSE]
  /\ req' = [req EXCEPT ![r].phase = "done",
                        ![r].errorSet = errorMessage,
                        ![r].onError = errorMessage,
                        ![r].loadingAtEnd = FALSE]

\* addMessage returns normally: setIsLoading(false)
AddMessageReturn(r) ==
  /\ chat' = [chat EXCEPT !.isLoading = FALSE]
  /\ req' = [req EXCEPT ![r].phase = "done", ![r].loadingAtEnd = FALSE]

\* fetch resolves with an ok response that has a body
ChatFetchOk(r) ==
  /\ ChatOthers
  /\ req[r].phase = "fetching" /\ ~req[r].aborted
  /\ req' = [req EXCEPT ![r].phase = IF chat.streamingEnabled THEN "reading" ELSE "parsing"]
  /\ UNCHANGED chat

\* fetch rejects, or resolves with !response.ok or (streaming) a null body
ChatFetchFails(r, errorMessage) ==
  /\ ChatOthers
  /\ req[r].phase = "fetching" /\ ~req[r].aborted
  /\ errorMessage = "Response body is null" => chat.streamingEnabled
  /\ AddMessageCatch(r, errorMessage)

\* number of chunks delivered so far, over all requests
TotalChunks ==
  Cardinality({c \in Requests \X (1..MaxChunks) : c[2] <= Len(req[c[1]].chunks)})

\* reader.read() yields one chunk
ChatReadChunk(r, t) ==
  /\ ChatOthers
  /\ req[r].phase = "reading" /\ ~req[r].aborted
  /\ TotalChunks < MaxChunks
  /\ LET accumulatedContent == req[r].accumulatedContent \o ChunkContent(t)
     IN /\ req' = [req EXCEPT ![r].accumulatedContent = accumulatedContent,
                              ![r].chunks = Append(req[r].chunks, t)]
        /\ chat' = [chat EXCEPT
             !.messages = SetContent(chat.messages, req[r].assistantId, accumulatedContent)]

\* reader.read() reports done
ChatReadDone(r) ==
  /\ ChatOthers
  /\ req[r].phase = "reading" /\ ~req[r].aborted
  /\ AddMessageReturn(r)

\* reader.read() rejects with an error other than AbortError
ChatReadFails(r) ==
  /\ ChatOthers
  /\ req[r].phase = "reading" /\ ~req[r].aborted
  /\ AddMessageCatch(r, "network error")

\* handleStandardRequest: response.json() resolves
ChatStandardDone(r, t) ==
  /\ ChatOthers
  /\ req[r].phase = "parsing" /\ ~req[r].aborted
  /\ LET parsed == JSONParse(t)
         content == IF parsed.ok /\ ~parsed.isNull THEN parsed.content ELSE <<>>
     IN /\ parsed.ok /\ ~parsed.isNull
        /\ chat' = [chat EXCEPT
             !.messages = SetContent(chat.messages, req[r].assistantId, content),
             !.isLoading = FALSE]
        /\ req' = [req EXCEPT ![r].phase = "done",
                              ![r].accumulatedContent = content,
                              ![r].loadingAtEnd = FALSE]

\* handleStandardRequest: response.json() rejects (body is not JSON)
ChatStandardFails(r) ==
  /\ ChatOthers
  /\ req[r].phase = "parsing" /\ ~req[r].aborted
  /\ AddMessageCatch(r, "Unexpected token")

\* abortRequest
ChatAbortRequest ==
  /\ ChatOthers
  /\ chat.abortController # 0
  /\ LET r == chat.abortController
     IN req' = IF req[r].phase \in {"fetching", "reading", "parsing"}
               THEN [req EXCEPT ![r].aborted = TRUE, ![r].abortedIn = req[r].phase]
               ELSE req
  /\ chat' = [chat EXCEPT !.abortController = 0]

\* a stream loop that rethrows the AbortError instead of swallowing it
ChatAbortSettles_Rethrow(r) ==
  /\ ChatOthers
  /\ req[r].aborted /\ req[r].phase \in {"fetching", "reading", "parsing"}
  /\ AddMessageCatch(r, "Request was cancelled")

\* the pending await of an aborted request rejects with an AbortError
ChatAbortSettles(r) ==
  /\ ChatOthers
  /\ req[r].aborted /\ req[r].phase \in {"fetching", "reading", "parsing"}
  /\ IF req[r].phase = "reading"
     THEN AddMessageReturn(r)
     ELSE AddMessageCatch(r, "Request was cancelled")

FetchErrors == {"Server error: 500", "Response body is null"}

ChatNext ==
  \/ \E r \in Requests : ChatAddMessage(r)
  \/ \E r \in Requests : ChatFetchOk(r)
  \/ \E r \in Requests, e \in FetchErrors : ChatFetchFails(r, e)
  \/ \E r \in Requests, t \in ChunkTexts : ChatReadChunk(r, t)
  \/ \E r \in Requests : ChatReadDone(r)
  \/ \E r \in Requests : ChatReadFails(r)
  \/ \E r \in Requests, t \in BodyTexts : ChatStandardDone(r, t)
  \/ \E r \in Requests : ChatStandardFails(r)
  \/ ChatAbortRequest
  \/ \E r \in Requests : ChatAbortSettles(r)

(***************************************************************************)
(* Firestore helpers (src/src/firebase/firestore.ts)                       *)
(*                                                                         *)
(* users and talk_history are the two collections: a function from         *)
(* document id to the stored document (a function from field name to       *)
(* value) or NoDoc.  fs holds the client side: the clock of                *)
(* Timestamp.now(), the auto-ids already handed out by doc(collection),    *)
(* and the frames of the calls that are suspended at an await.             *)
(***************************************************************************)
\* bounds of the model
MaxSaves == 2
MaxDocs == 2

Uids == {"u1", "u2"}
DocIds == 1..MaxDocs
SaveCalls == 1..MaxSaves
NoDoc == [exists |-> FALSE]

\* Partial<UserSettings> values passed by callers
SettingsArgs ==
  { l @@ t : l \in {<<>>, [language |-> "spanish"]},
             t \in {<<>>, [updatedAt |-> 0]} }

SaveIdle == [phase |-> "idle", user |-> "u1", settings |-> <<>>, userDoc |-> NoDoc]

FsInit ==
  fs = [ now |-> 1, usedIds |-> {},
         saves |-> [k \in SaveCalls |-> SaveIdle],
         del |-> [phase |-> "idle", user |-> "u1", historyDocs |-> {},
                  completed |-> FALSE] ]

\* each user either has no settings document yet or one saved earlier
StoreInit ==
  /\ users \in [Uids -> {NoDoc, [language |-> "english", voice |-> "echo",
                                  createdAt |-> 0, updatedAt |-> 0]}]
  /\ talk_history = [d \in DocIds |-> NoDoc]
  /\ FsInit

\* an empty database, when the settings documents take no part
StoreIdle ==
  /\ users = [u \in Uids |-> NoDoc]
  /\ talk_history = [d \in DocIds |-> NoDoc]
  /\ FsInit

exists(userDoc) == userDoc # NoDoc

\* saveUserSettings(user, settings) up to the await of getDoc
SaveUserSettingsCall(k, user, settings) ==
  /\ StoreOthers
  /\ fs.saves[k].phase = "idle"
  /\ \A j \in SaveCalls : j < k => fs.saves[j].phase # "idle"
  /\ fs' = [fs EXCEPT !.saves[k] = [phase |-> "getDoc", user |-> user,
                                    settings |-> settings, userDoc |-> NoDoc]]
  /\ UNCHANGED <<users, talk_history>>

\* getDoc(userRef) resolves with the stored document
SaveUserSettingsRead(k) ==
  /\ StoreOthers
  /\ fs.saves[k].phase = "getDoc"
  /\ fs' = [fs EXCEPT !.saves[k].phase = "setDoc",
                      !.saves[k].userDoc = users[fs.saves[k].user]]
  /\ UNCHANGED <<users, talk_history>>

\* the document saveUserSettings writes, from the snapshot it read
updatedSettings(userDoc, settings, now) ==
  LET merged == [updatedAt |-> now] @@ settings @@ (IF exists(userDoc) THEN userDoc ELSE <<>>)
  IN IF ~exists(userDoc) THEN [createdAt |-> now] @@ merged ELSE merged

\* the rest of saveUserSettings: setDoc(userRef, updatedSettings)
SaveUserSettingsWrite(k) ==
  /\ StoreOthers
  /\ fs.saves[k].phase = "setDoc"
  /\ LET c == fs.saves[k]
     IN /\ users' = [users EXCEPT ![c.user] = updatedSettings(c.userDoc, c.settings, fs.now)]
        /\ fs' = [fs EXCEPT !.saves[k] = [SaveIdle EXCEPT !.phase = "done"],
                            !.now = fs.now + 1]
  /\ UNCHANGED talk_history

\* a save that keys the document by a fixed id instead of the fresh auto-id
saveTalkHistory_FixedDoc(coll, id, historyItem) ==
  [coll EXCEPT ![1] = [id |-> id] @@ historyItem]

\* saveTalkHistory(historyItem) on a collection, writing under the auto-id id
saveTalkHistory(coll, id, historyItem) ==
  [coll EXCEPT ![id] = [id |-> id] @@ historyItem]

\* a caller saves a conversation of user
SaveTalkHistoryCall(user, id) ==
  /\ StoreOthers
  /\ id \notin fs.usedIds
  /\ talk_history' = saveTalkHistory(talk_history, id,
                                     [userId |-> user])
  /\ fs' = [fs EXCEPT !.usedIds = fs.usedIds \cup {id}]
  /\ UNCHANGED users

\* deleteUserData(user) up to the end of deleteDoc(userRef)
DeleteUserDataCall(user) ==
  /\ StoreOthers
  /\ fs.del.phase = "idle"
  /\ users' = [users EXCEPT ![user] = NoDoc]
  /\ fs' = [fs EXCEPT !.del = [phase |-> "getDocs", user |-> user, historyDocs |-> {},
                                completed |-> FALSE]]
  /\ UNCHANGED talk_history

\* getDocs(historyQuery) resolves
DeleteUserDataQuery ==
  /\ StoreOthers
  /\ fs.del.phase = "getDocs"
  /\ fs' = [fs EXCEPT !.del.phase = "deleteDocs",
                      !.del.historyDocs =
                         {d \in DocIds : /\ exists(talk_history[d])
                                         /\ talk_history[d].userId = fs.del.user}]
  /\ UNCHANGED <<users, talk_history>>

\* Promise.all(historyDocs.docs.map(doc => deleteDoc(doc.ref))) resolves
DeleteUserDataDeletes ==
  /\ StoreOthers
  /\ fs.del.phase = "deleteDocs"
  /\ talk_history' = [d \in DocIds |->
                        IF d \in fs.del.historyDocs THEN NoDoc ELSE talk_history[d]]
  /\ fs' = [fs EXCEPT !.del.phase = "idle", !.del.historyDocs = {},
                      !.del.completed = TRUE]
  /\ UNCHANGED users

SettingsNext ==
  \/ \E k \in SaveCalls, u \in Uids, st \in SettingsArgs : SaveUserSettingsCall(k, u, st)
  \/ \E k \in SaveCalls : SaveUserSettingsRead(k)
  \/ \E k \in SaveCalls : SaveUserSettingsWrite(k)

HistoryNext ==
  \/ \E u \in Uids, d \in DocIds : SaveTalkHistoryCall(u, d)
  \/ \E u \in Uids : DeleteUserDataCall(u)
  \/ DeleteUserDataQuery
  \/ DeleteUserDataDeletes

(***************************************************************************)
(* useChatbot (src/src/lib/useApi.ts)                                      *)
(*                                                                         *)
(* bot.docs is the subcollection questions/{email}/messages as the client  *)
(* sees it, in the order of the local writes: a document whose write the   *)
(* server has not committed yet has timestamp 0 (serverTimestamp() still   *)
(* pending, read as null).  Writes are committed in the order they were    *)
(* issued and the server stamps each with its clock.                       *)
(***************************************************************************)
\* bounds of the model
MaxSends == 2

Sends == 1..MaxSends
MsgIds == 1..(2 * MaxSends)

BotInit ==
  bot = [ docs |-> <<>>, clock |-> 1, messages |-> <<>>,
          loading |-> FALSE, error |-> "",
          sends |-> [k \in Sends |-> "idle"],
          failed |-> [k \in Sends |-> FALSE] ]

\* orderBy('timestamp', 'asc'): committed documents by timestamp, ties by
\* document id; documents with a pending server timestamp after them, in
\* the order of the local writes
TimestampOrder(a, b) ==
  IF a.timestamp # 0 /\ b.timestamp # 0
  THEN \/ a.timestamp < b.timestamp
       \/ a.timestamp = b.timestamp /\ a.id < b.id
  ELSE IF a.timestamp = 0 /\ b.timestamp = 0
       THEN a.seq < b.seq
       ELSE a.timestamp # 0

\* a query without orderBy: documents by id
IdOrder(a, b) == a.id < b.id

\* the snapshot the listener of loadMessages receives
Snapshot_NoOrderBy(docs) ==
  SortSeq([i \in 1..Len(docs) |-> docs[i] @@ [seq |-> i]], IdOrder)

Snapshot(docs) ==
  SortSeq([i \in 1..Len(docs) |-> docs[i] @@ [seq |-> i]], TimestampOrder)

\* the callback of onSnapshot: setMessages(loadedMessages)
loadMessages(docs) ==
  LET snapshot == Snapshot(docs)
  IN [i \in 1..Len(snapshot) |->
        [id |-> snapshot[i].id, sender |-> snapshot[i].sender,
         timestamp |-> snapshot[i].timestamp, send |-> snapshot[i].send]]

UsedMsgIds == {bot.docs[i].id : i \in 1..Len(bot.docs)}
FreeMsgIds == MsgIds \ UsedMsgIds

\* auto-ids are random: the next one may sort before or after the others
AutoIds ==
  IF FreeMsgIds = {} THEN {}
  ELSE {CHOOSE x \in FreeMsgIds : \A y \in FreeMsgIds : x <= y,
        CHOOSE x \in FreeMsgIds : \A y \in FreeMsgIds : x >= y}

\* addDoc(messagesCollectionRef, {sender, timestamp: serverTimestamp()}):
\* the local write
addDoc(docs, id, sender, k) ==
  Append(docs, [id |-> id, sender |-> sender, send |-> k, timestamp |-> 0])

FirstPending ==
  IF \E i \in 1..Len(bot.docs) : bot.docs[i].timestamp = 0
  THEN CHOOSE i \in 1..Len(bot.docs) :
         /\ bot.docs[i].timestamp = 0
         /\ \A j \in 1..(i - 1) : bot.docs[j].timestamp # 0
  ELSE 0

\* sendMessage with a blank message or without a signed-in user
BotSendRejected ==
  /\ BotOthers
  /\ bot.error # "You must be logged in to send messages"
  /\ bot' = [bot EXCEPT !.error = "You must be logged in to send messages"]

\* sendMessage(user, message) up to the await of the first addDoc
BotSendMessage(k, id) ==
  /\ BotOthers
  /\ bot.sends[k] = "idle"
  /\ \A j \in Sends : j < k => bot.sends[j] # "idle"
  /\ LET docs == addDoc(bot.docs, id, "user", k)
     IN bot' = [bot EXCEPT !.loading = TRUE, !.error = "",
                           !.docs = docs,
                           !.messages = loadMessages(docs),
                           !.sends[k] = "addUser"]

\* the server commits the oldest pending write; the addDoc that issued it
\* resolves and its sendMessage goes on
BotCommit ==
  /\ BotOthers
  /\ FirstPending # 0
  /\ LET i == FirstPending
         k == bot.docs[i].send
         docs == [bot.docs EXCEPT ![i].timestamp = bot.clock]
     IN bot' = [bot EXCEPT
                  !.docs = docs,
                  !.messages = loadMessages(docs),
                  !.sends[k] = IF bot.sends[k] = "addUser" THEN "openai" ELSE "done",
                  !.loading = IF bot.sends[k] = "addAi" THEN FALSE ELSE bot.loading]

\* getAIResponse returns the reply, or, when openai.chat.completions.create
\* failed, the apology text of its catch; the second addDoc is issued
BotAIResponse(k, id, failed) ==
  /\ BotOthers
  /\ bot.sends[k] = "openai"
  /\ LET docs == addDoc(bot.docs, id, "ai", k)
     IN bot' = [bot EXCEPT !.clock = bot.clock + 1,
                           !.docs = docs,
                           !.messages = loadMessages(docs),
                           !.failed[k] = failed,
                           !.sends[k] = "addAi"]

\* the server rejects the oldest pending write: the local write is rolled
\* back, addDoc rejects, sendMessage reports and ends
BotAddDocFails ==
  /\ BotOthers
  /\ FirstPending # 0
  /\ LET i == FirstPending
         k == bot.docs[i].send
         docs == SubSeq(bot.docs, 1, i - 1) \o SubSeq(bot.docs, i + 1, Len(bot.docs))
     IN bot' = [bot EXCEPT !.docs = docs,
                           !.messages = loadMessages(docs),
                           !.error = "Failed to send message",
                           !.loading = FALSE,
                           !.sends[k] = "done"]

BotNext ==
  \/ BotSendRejected
  \/ \E k \in Sends, id \in AutoIds : BotSendMessage(k, id)
  \/ BotCommit
  \/ \E k \in Sends, id \in AutoIds, failed \in BOOLEAN : BotAIResponse(k, id, failed)
  \/ BotAddDocFails

(***************************************************************************)
(* Notes page (src/src/app/notes/page.tsx) and NoteChatbot                 *)
(* (src/src/components/NoteChatbot.tsx)                                    *)
(*                                                                         *)
(* A summary text is represented by the set of ids of the notes it was     *)
(* generated from.  A message without relatedNotes has relatedNotes = {},  *)
(* which is what saveSummary reads it as (message.relatedNotes || []).     *)
(***************************************************************************)
\* bounds of the model
MaxNotes == 2
MaxSubmits == 1
MaxSummaries == 1

NoteIds == 1..MaxNotes
RequestTypes == {"summarize", "convert"}

NoRequest == [active |-> FALSE]

NotesInit ==
  notes = [ sessions |-> NoteIds, selectedNotes |-> {}, selectionMode |-> FALSE,
            chatMessages |-> <<>>, processingRequest |-> FALSE,
            request |-> NoRequest, submits |-> 0,
            showSaveDialog |-> FALSE, messageToSave |-> 0,
            note_summaries |-> <<>>, summaries |-> <<>>,
            loading |-> FALSE, shown |-> <<>> ]

\* toggleSelectionMode
ToggleSelectionMode ==
  /\ NotesOthers
  /\ notes' = [notes EXCEPT
       !.selectionMode = ~notes.selectionMode,
       !.selectedNotes = IF ~notes.selectionMode THEN {} ELSE notes.selectedNotes]

\* a click on a note of the folder in selection mode, or on the X of a
\* selected note's chip: toggleNoteSelection(noteId)
ToggleNoteSelection(noteId) ==
  /\ NotesOthers
  /\ noteId \in notes.sessions
  /\ notes.selectionMode \/ noteId \in notes.selectedNotes
  /\ notes' = [notes EXCEPT
       !.selectedNotes = IF noteId \in notes.selectedNotes
                         THEN notes.selectedNotes \ {noteId}
                         ELSE notes.selectedNotes \cup {noteId}]

\* clearAllNotes, confirmed: the notes are deleted and setSessions([])
ClearAllNotes ==
  /\ NotesOthers
  /\ notes.sessions # {}
  /\ notes' = [notes EXCEPT !.sessions = {}]

\* processUserRequest up to its await: the response it will return
processUserRequest(selectedNotes, sessions, requestType) ==
  LET selectedNoteIds == selectedNotes
      selectedNotesData == {note \in sessions : note \in selectedNoteIds}
  IN IF selectedNoteIds = {}
     THEN [sender |-> "bot", text |-> "Please select", relatedNotes |-> {},
           requestType |-> "none"]
     ELSE [sender |-> "bot", text |-> selectedNotesData,
           relatedNotes |-> selectedNoteIds, requestType |-> requestType]

\* handleChatSubmit up to the await of processUserRequest
HandleChatSubmit(requestType) ==
  /\ NotesOthers
  /\ ~notes.processingRequest
  /\ notes.submits < MaxSubmits
  /\ notes' = [notes EXCEPT
       !.chatMessages = Append(@, [sender |-> "user", text |-> requestType,
                                   relatedNotes |-> notes.selectedNotes,
                                   requestType |-> "none"]),
       !.processingRequest = TRUE,
       !.submits = @ + 1,
       !.request = [active |-> TRUE,
                    response |-> processUserRequest(notes.selectedNotes,
                                                    notes.sessions, requestType)]]

\* processUserRequest resolves: the bot's response is appended
HandleChatResponse ==
  /\ NotesOthers
  /\ notes.request.active
  /\ notes' = [notes EXCEPT
       !.chatMessages = Append(@, notes.request.response),
       !.processingRequest = FALSE,
       !.request = NoRequest]

\* the Save Summary button of a bot message: initiateNoteSave(msg)
InitiateNoteSave(i) ==
  /\ NotesOthers
  /\ i \in 1..Len(notes.chatMessages)
  /\ notes.chatMessages[i].sender = "bot"
  /\ notes.chatMessages[i].requestType \in {"summarize", "extract"}
  /\ ~notes.showSaveDialog
  /\ notes' = [notes EXCEPT !.messageToSave = i, !.showSaveDialog = TRUE]

\* closeDialog
CloseDialog ==
  /\ NotesOthers
  /\ notes.showSaveDialog
  /\ notes' = [notes EXCEPT !.messageToSave = 0, !.showSaveDialog = FALSE]

\* saveSummary(messageToSave): addDoc to note_summaries, dialog closed
saveSummary(message) ==
  [summary |-> message.text, sourceNoteIds |-> message.relatedNotes]

SaveSummary ==
  /\ NotesOthers
  /\ notes.showSaveDialog
  /\ notes.messageToSave # 0
  /\ Len(notes.note_summaries) + Len(notes.summaries) < MaxSummaries
  /\ notes' = [notes EXCEPT
       !.note_summaries = Append(@, saveSummary(notes.chatMessages[notes.messageToSave])),
       !.shown = Append(notes.note_summaries,
                        saveSummary(notes.chatMessages[notes.messageToSave])),
       !.messageToSave = 0,
       !.showSaveDialog = FALSE]

\* NoteChatbot.processRequest, case 'summarize', the user consenting to the
\* save: addDoc to summaries
processRequest(noteList) ==
  [summary |-> noteList, sourceNoteIds |-> {note : note \in noteList}]

\* NoteChatbot.handleSendMessage with a summarize request
NoteChatbotSend(userConsent) ==
  /\ NotesOthers
  /\ Len(notes.note_summaries) + Len(notes.summaries) < MaxSummaries
  /\ LET selectedNotes == {note \in notes.sessions : note \in notes.selectedNotes}
     IN /\ selectedNotes # {}
        /\ userConsent
        /\ notes' = [notes EXCEPT !.summaries = Append(@, processRequest(selectedNotes))]

\* the notes page is opened again: its state is new, and loadUserData runs
\* up to its first await
NotesReload ==
  /\ NotesOthers
  /\ ~notes.loading
  /\ ~notes.processingRequest
  /\ notes' = [notes EXCEPT
       !.selectedNotes = {}, !.selectionMode = FALSE, !.chatMessages = <<>>,
       !.showSaveDialog = FALSE, !.messageToSave = 0,
       !.shown = <<>>, !.loading = TRUE]

\* loadUserData: the queries on notes and on note_summaries resolve;
\* setSessions, setSummaries, setLoading(false)
LoadUserData ==
  /\ NotesOthers
  /\ notes.loading
  /\ notes' = [notes EXCEPT !.shown = notes.note_summaries, !.loading = FALSE]

\* clearAllSummaries, confirmed: the documents of note_summaries are
\* deleted and setSummaries([])
ClearAllSummaries ==
  /\ NotesOthers
  /\ notes.note_summaries # <<>> \/ notes.shown # <<>>
  /\ notes' = [notes EXCEPT !.note_summaries = <<>>, !.shown = <<>>]

NotesNext ==
  \/ NotesReload
  \/ LoadUserData
  \/ ClearAllSummaries
  \/ ToggleSelectionMode
  \/ \E noteId \in NoteIds : ToggleNoteSelection(noteId)
  \/ ClearAllNotes
  \/ \E requestType \in RequestTypes : HandleChatSubmit(requestType)
  \/ HandleChatResponse
  \/ \E i \in 1..(2 * MaxSubmits) : InitiateNoteSave(i)
  \/ CloseDialog
  \/ SaveSummary
  \/ \E userConsent \in BOOLEAN : NoteChatbotSend(userConsent)

(***************************************************************************)
(* Voice conversation page (src/src/app/notes/[id]/page.tsx,               *)
(* VoiceConversationPage)                                                  *)
(*                                                                         *)
(* The handlers are closures of the render that created them.  A recorder  *)
(* carries the render whose startRecording made it (its onstop calls the   *)
(* processRecording of that render), a restart timer the render of the     *)
(* handler that set it, and ended the render of the last run of the effect *)
(* that attaches handleEnded.  navigator.mediaDevices.getUserMedia is      *)
(* taken to settle at once, and the stop event of a recorder to be         *)
(* dispatched before the next input.                                       *)
(***************************************************************************)
\* bounds of the model
MaxRecordings == 3

Transcriptions == {"", " ", "hi"}

\* String.prototype.trim on the transcriptions above
Trim(t) == IF t = " " THEN "" ELSE t

\* !transcription || transcription.trim() === ''
IsEmptyTranscription_NoTrim(t) == t = ""

IsEmptyTranscription(t) == t = "" \/ Trim(t) = ""

\* what the closures of a render see
Render(v) ==
  [ len |-> Len(v.messages), messages |-> v.messages,
    isFirstInteraction |-> v.isFirstInteraction,
    isAuthenticated |-> v.isAuthenticated, startTime |-> v.startTime,
    isListening |-> v.isListening ]

NoProc == [phase |-> "idle", tempId |-> 0, transcription |-> "?"]

VoiceInit ==
  voice = [ isListening |-> FALSE, isSpeaking |-> FALSE, isLoading |-> FALSE,
            messages |-> << [id |-> 0, role |-> "assistant", content |-> "welcome"] >>,
            audioSrc |-> FALSE, error |-> "", isFirstInteraction |-> TRUE,
            startTime |-> FALSE, isAuthenticated |-> FALSE, now |-> 1,
            recorder |-> "null", orphans |-> 0, recordings |-> 0,
            proc |-> NoProc, timers |-> {},
            chatRequests |-> 0, ttsRequests |-> 0,
            silenceTimers |-> <<>>, elapsed |-> FALSE ]
  @@ [ started |-> Render([messages |-> <<>>, isFirstInteraction |-> TRUE, isListening |-> FALSE,
                           isAuthenticated |-> FALSE, startTime |-> FALSE]),
       ended |-> Render([messages |-> <<>>, isFirstInteraction |-> TRUE, isListening |-> FALSE,
                         isAuthenticated |-> FALSE, startTime |-> FALSE]),
       closure |-> Render([messages |-> <<>>, isFirstInteraction |-> TRUE, isListening |-> FALSE,
                           isAuthenticated |-> FALSE, startTime |-> FALSE]) ]

\* onAuthStateChanged: setIsAuthenticated(!!user)
VoiceAuthStateChanged(user) ==
  /\ VoiceOthers
  /\ voice.isAuthenticated # user
  /\ voice' = [voice EXCEPT !.isAuthenticated = user]
  /\ UNCHANGED <<talk_history, fs>>

AssistantMessage(v, content) ==
  [v EXCEPT !.messages = Append(@, [id |-> v.now, role |-> "assistant", content |-> content]),
            !.now = @ + 1]

\* startRecording of the render r
startRecording(v, r, granted) ==
  IF granted
  THEN [v EXCEPT !.recorder = "recording",
                 !.started = r,
                 !.orphans = IF v.recorder = "recording" THEN @ + 1 ELSE @,
                 !.recordings = @ + 1,
                 !.silenceTimers = Append(@, r.isListening),
                 !.elapsed = FALSE,
                 !.isListening = TRUE]
  ELSE [v EXCEPT !.recordings = @ + 1,
                 !.error = "Microphone access denied. Please enable microphone permissions."]

\* processRecording of the render r up to the await of /api/transcribe
processRecording(v, r) ==
  [v EXCEPT !.isLoading = TRUE,
            !.messages = Append(@, [id |-> v.now, role |-> "user", content |-> "..."]),
            !.now = @ + 1,
            !.proc = [phase |-> "transcribe", tempId |-> v.now, transcription |-> "?"],
            !.closure = r]

\* stopRecording, and the stop event of the recorder
voiceStopRecording(v) ==
  IF v.recorder = "recording"
  THEN processRecording([v EXCEPT !.recorder = "inactive", !.isListening = FALSE],
                        v.started)
  ELSE v

\* handleCircleClick
HandleCircleClick(granted) ==
  /\ VoiceOthers
  /\ ~(voice.isSpeaking \/ voice.isLoading)
  /\ IF voice.isListening
     THEN /\ voice.recorder = "recording"
          /\ voice' = voiceStopRecording(voice)
     ELSE /\ voice.recordings < MaxRecordings
          /\ LET first == IF voice.isFirstInteraction
                          THEN AssistantMessage([voice EXCEPT !.isFirstInteraction = FALSE,
                                                              !.startTime = TRUE], "great")
                          ELSE voice
                 shown == IF voice.isFirstInteraction
                          THEN [first EXCEPT !.ended = Render(first)]
                          ELSE first
             IN voice' = startRecording(shown, Render(voice), granted)
  /\ UNCHANGED <<talk_history, fs>>

\* a restart timer set by the render r fires: startRecording of r
VoiceRestartTimer(r, granted) ==
  /\ VoiceOthers
  /\ r \in voice.timers
  /\ voice.recordings < MaxRecordings
  /\ voice' = startRecording([voice EXCEPT !.timers = @ \ {r}], r, granted)
  /\ UNCHANGED <<talk_history, fs>>

\* the oldest silenceTimer fires, 5000 ms after the startRecording that set
\* it: if (isListening && mediaRecorderRef.current?.state === 'recording')
\* stopRecording(), with the isListening of the render of that
\* startRecording.  The timer set last is the one of the current recorder.
VoiceSilenceTimer ==
  /\ VoiceOthers
  /\ voice.silenceTimers # <<>>
  /\ LET v == [voice EXCEPT !.silenceTimers = Tail(@),
                            !.elapsed = @ \/ Len(voice.silenceTimers) = 1]
     IN voice' = IF Head(voice.silenceTimers) /\ v.recorder = "recording"
                 THEN voiceStopRecording(v)
                 ELSE v
  /\ UNCHANGED <<talk_history, fs>>

\* the end of processRecording on its early return and after its catch:
\* the restart timer of its render, and finally setIsLoading(false)
Finally(v) ==
  [v EXCEPT !.timers = IF ~v.closure.isFirstInteraction THEN @ \cup {v.closure} ELSE @,
            !.isLoading = FALSE,
            !.proc.phase = "idle"]

RemoveId(messages, id) == SelectSeq(messages, LAMBDA msg : msg.id # id)

\* /api/transcribe answers with the text t
VoiceTranscribed(t) ==
  /\ VoiceOthers
  /\ voice.proc.phase = "transcribe"
  /\ LET v == [voice EXCEPT !.proc.transcription = t]
     IN IF IsEmptyTranscription(t)
        THEN voice' = Finally(AssistantMessage(
                        [v EXCEPT !.messages = RemoveId(@, v.proc.tempId)], "empty"))
        ELSE voice' = [v EXCEPT
               !.messages = [i \in 1..Len(@) |->
                               IF @[i].id = v.proc.tempId
                               THEN [@[i] EXCEPT !.content = t] ELSE @[i]],
               !.chatRequests = @ + 1,
               !.proc.phase = "chat"]
  /\ UNCHANGED <<talk_history, fs>>

\* messages.map(msg => ({role, content, timestamp}))
StoredMessages(messages) ==
  [i \in 1..Len(messages) |-> [role |-> messages[i].role, content |-> messages[i].content]]

\* saveConversationToFirebase of the render r, with the auto-id id
saveConversationToFirebase(coll, r, id) ==
  IF ~r.isAuthenticated \/ ~r.startTime \/ r.len < 3
  THEN coll
  ELSE saveTalkHistory(coll, id, [userId |-> "u1", messages |-> StoredMessages(r.messages)])

\* /api/chat answers
VoiceChatResponded(id) ==
  /\ VoiceOthers
  /\ voice.proc.phase = "chat"
  /\ id \notin fs.usedIds
  /\ voice' = [AssistantMessage(voice, "ai") EXCEPT !.ttsRequests = @ + 1,
                                                    !.proc.phase = "tts"]
  /\ IF voice.closure.len >= 5
     THEN /\ talk_history' = saveConversationToFirebase(talk_history, voice.closure, id)
          /\ fs' = IF talk_history' # talk_history
                   THEN [fs EXCEPT !.usedIds = @ \cup {id}] ELSE fs
     ELSE UNCHANGED <<talk_history, fs>>

\* /api/text-to-speech answers: setAudioSrc(url), and the effect on audioSrc
VoiceSpeechResponded ==
  /\ VoiceOthers
  /\ voice.proc.phase = "tts"
  /\ voice' = [voice EXCEPT !.audioSrc = TRUE, !.isSpeaking = TRUE,
                            !.isLoading = FALSE, !.proc.phase = "idle"]
  /\ UNCHANGED <<talk_history, fs>>

\* a request of processRecording fails: its catch and finally
VoiceRequestFails(e) ==
  /\ VoiceOthers
  /\ voice.proc.phase \in {"transcribe", "chat", "tts"}
  /\ voice' = Finally(AssistantMessage([voice EXCEPT !.error = e], "error"))
  /\ UNCHANGED <<talk_history, fs>>

\* handleCanPlay: audioElement.play() is rejected
VoicePlayRejected ==
  /\ VoiceOthers
  /\ voice.isSpeaking
  /\ voice' = [voice EXCEPT !.isSpeaking = FALSE]
  /\ UNCHANGED <<talk_history, fs>>

\* handleEnded
VoiceAudioEnded ==
  /\ VoiceOthers
  /\ voice.isSpeaking
  /\ voice' = [voice EXCEPT
       !.isSpeaking = FALSE, !.audioSrc = FALSE,
       !.timers = IF ~voice.ended.isFirstInteraction THEN @ \cup {voice.ended} ELSE @]
  /\ UNCHANGED <<talk_history, fs>>

VoiceErrors == {"Failed to transcribe audio"}

VoiceNext ==
  \/ \E user \in BOOLEAN : VoiceAuthStateChanged(user)
  \/ \E granted \in BOOLEAN : HandleCircleClick(granted)
  \/ \E r \in voice.timers, granted \in BOOLEAN : VoiceRestartTimer(r, granted)
  \/ \E t \in Transcriptions : VoiceTranscribed(t)
  \/ \E id \in DocIds : VoiceChatResponded(id)
  \/ VoiceSpeechResponded
  \/ \E e \in VoiceErrors : VoiceRequestFails(e)
  \/ VoicePlayRejected
  \/ VoiceAudioEnded
  \/ VoiceSilenceTimer

(***************************************************************************)
(* Account deletion: handleDeleteAccount (src/src/app/settings/page.tsx),  *)
(* deleteUserAccount (src/src/lib/firebaseUtils.ts)                        *)
(*                                                                         *)
(* acct.accounts are the Firebase Auth accounts, acct.owned the documents  *)
(* of the collections other than users and talk_history, as pairs of       *)
(* collection and owner.  fs.del.completed says that the promise of the    *)
(* last deleteUserData call has resolved.                                  *)
(***************************************************************************)
OtherCollections == {"notes", "note_summaries", "messages"}
Passwords == {"", "wrong", "right"}
Confirmations == {"", "DELETE"}

HistoryOf(coll, user) ==
  {d \in DocIds : exists(coll[d]) /\ coll[d].userId = user}

AcctIdle ==
  acct = [ accounts |-> Uids, owned |-> {}, phase |-> "idle", user |-> "u1",
           password |-> "", error |-> "", loading |-> FALSE,
           before |-> [settings |-> NoDoc, history |-> {}] ]

\* addDoc to notes (ChatButton), note_summaries (notes page) or
\* questions/{email}/messages (useChatbot) by a signed-in user
AddDoc(coll, user) ==
  /\ AcctOthers
  /\ acct.phase = "idle"
  /\ user \in acct.accounts
  /\ <<coll, user>> \notin acct.owned
  /\ acct' = [acct EXCEPT !.owned = @ \cup {<<coll, user>>}]
  /\ UNCHANGED <<users, talk_history, fs>>

\* a voice conversation of a signed-in user is saved
AcctSaveTalkHistory(user, id) ==
  /\ acct.phase = "idle"
  /\ user \in acct.accounts
  /\ SaveTalkHistoryCall(user, id)

\* handleDeleteAccount up to the call of deleteUserData
HandleDeleteAccount(user, deleteConfirmation, deletePassword) ==
  /\ AcctOthers
  /\ acct.phase = "idle"
  /\ user \in acct.accounts
  /\ fs.del.phase = "idle"
  /\ IF deleteConfirmation # "DELETE"
     THEN /\ acct' = [acct EXCEPT !.error = "Please type DELETE to confirm account deletion"]
          /\ UNCHANGED fs
     ELSE IF deletePassword = ""
     THEN /\ acct' = [acct EXCEPT !.error = "Please enter your password"]
          /\ UNCHANGED fs
     ELSE /\ acct' = [acct EXCEPT
                 !.error = "", !.loading = TRUE, !.phase = "deleteUserData",
                 !.user = user, !.password = deletePassword,
                 !.before = [settings |-> users[user],
                             history |-> HistoryOf(talk_history, user)]]
          /\ fs' = [fs EXCEPT !.del.completed = FALSE]
  /\ UNCHANGED <<users, talk_history>>

\* await deleteUserData(auth.currentUser)
AcctDeleteUserData ==
  /\ acct.phase = "deleteUserData"
  /\ ~fs.del.completed
  /\ DeleteUserDataCall(acct.user)

\* await deleteUserAccount(deletePassword): reauthenticateWithCredential,
\* then deleteUser and router.push('/'), or the catch of handleDeleteAccount
DeleteUserAccount ==
  /\ AcctOthers
  /\ acct.phase = "deleteUserData"
  /\ fs.del.phase = "idle"
  /\ fs.del.completed
  /\ IF acct.password = "right"
     THEN acct' = [acct EXCEPT !.accounts = @ \ {acct.user}, !.phase = "idle",
                               !.password = ""]
     ELSE acct' = [acct EXCEPT !.error = "auth/wrong-password", !.loading = FALSE,
                               !.phase = "idle", !.password = ""]
  /\ UNCHANGED <<users, talk_history, fs>>

AcctNext ==
  \/ \E coll \in OtherCollections, user \in Uids : AddDoc(coll, user)
  \/ \E user \in Uids, id \in DocIds : AcctSaveTalkHistory(user, id)
  \/ \E user \in Uids, c \in Confirmations, p \in Passwords : HandleDeleteAccount(user, c, p)
  \/ AcctDeleteUserData
  \/ DeleteUserDataQuery
  \/ DeleteUserDataDeletes
  \/ DeleteUserAccount

(***************************************************************************)
(* Settings page (src/src/app/settings/page.tsx): loading and saving       *)
(*                                                                         *)
(* sp.requests are the calls of saveUserSettings the save effect has       *)
(* made, in order; call k of the store takes its argument from request k.  *)
(* sp.stored is the document the page found stored when it was opened and  *)
(* sp.changed says that the user has changed a setting since.              *)
(***************************************************************************)
Languages == {"english", "spanish"}
Voices == {"alloy", "echo"}
Themes == {"light", "dark", "system"}

StoredSettings ==
  { [language |-> l, languageLevel |-> "advanced", voice |-> v, theme |-> t,
     createdAt |-> 0, updatedAt |-> 0] : l \in Languages, v \in Voices, t \in Themes }

PageIdle ==
  sp = [ loading |-> TRUE, voice |-> "alloy", darkMode |-> FALSE,
         language |-> "english", languageLevel |-> "beginner",
         phase |-> "mounted", requests |-> <<>>, loaded |-> FALSE,
         changed |-> FALSE, stored |-> NoDoc ]

PageInit ==
  /\ users \in [Uids -> {NoDoc} \cup StoredSettings]
  /\ users["u2"] = NoDoc
  /\ talk_history = [d \in DocIds |-> NoDoc]
  /\ FsInit
  /\ sp = [ loading |-> TRUE, voice |-> "alloy", darkMode |-> FALSE,
            language |-> "english", languageLevel |-> "beginner",
            phase |-> "mounted", requests |-> <<>>, loaded |-> FALSE,
            changed |-> FALSE, stored |-> users["u1"] ]

\* the save effect of a render: saveSettings()
saveSettings(p) ==
  IF p.loading THEN p
  ELSE [p EXCEPT !.requests = Append(@,
          [language |-> p.language, languageLevel |-> p.languageLevel,
           voice |-> p.voice, theme |-> IF p.darkMode THEN "dark" ELSE "light",
           updatedAt |-> 0])]

\* a render after a state change: the save effect runs when one of its
\* dependencies has changed
Rerender(old, new) ==
  IF <<old.language, old.languageLevel, old.voice, old.darkMode, old.loading>>
       # <<new.language, new.languageLevel, new.voice, new.darkMode, new.loading>>
  THEN saveSettings(new)
  ELSE new

\* onAuthStateChanged with the signed-in user, up to the await of
\* getUserSettings
PageAuthStateChanged ==
  /\ PageOthers
  /\ sp.phase = "mounted"
  /\ sp' = Rerender(sp, [sp EXCEPT !.loading = FALSE, !.phase = "getUserSettings"])
  /\ UNCHANGED <<users, talk_history, fs>>

\* getUserSettings resolves and the stored settings are applied
PageSettingsLoaded(prefersDarkMode) ==
  /\ PageOthers
  /\ sp.phase = "getUserSettings"
  /\ Len(sp.requests) < MaxSaves
  /\ LET settings == users["u1"]
         applied == IF exists(settings)
                    THEN [sp EXCEPT !.language = settings.language,
                                    !.languageLevel = settings.languageLevel,
                                    !.voice = settings.voice,
                                    !.darkMode = IF settings.theme = "dark" THEN TRUE
                                                 ELSE IF settings.theme = "light" THEN FALSE
                                                 ELSE prefersDarkMode]
                    ELSE sp
     IN sp' = Rerender(sp, [applied EXCEPT !.phase = "ready", !.loaded = TRUE])
  /\ UNCHANGED <<users, talk_history, fs>>

\* handleVoiceChange
HandleVoiceChange(v) ==
  /\ PageOthers
  /\ ~sp.loading
  /\ v # sp.voice
  /\ Len(sp.requests) < MaxSaves
  /\ sp' = Rerender(sp, [sp EXCEPT !.voice = v, !.changed = TRUE])
  /\ UNCHANGED <<users, talk_history, fs>>

\* the effect's saveUserSettings(auth.currentUser, {...}) call number k
PageSaveUserSettings(k) ==
  /\ k <= Len(sp.requests)
  /\ SaveUserSettingsCall(k, "u1", sp.requests[k])

PageNext ==
  \/ PageAuthStateChanged
  \/ \E prefersDarkMode \in BOOLEAN : PageSettingsLoaded(prefersDarkMode)
  \/ \E v \in Voices : HandleVoiceChange(v)
  \/ \E k \in SaveCalls : PageSaveUserSettings(k)
  \/ \E k \in SaveCalls : SaveUserSettingsRead(k)
  \/ \E k \in SaveCalls : SaveUserSettingsWrite(k)

(***************************************************************************)
(* LanguageProvider (src/src/lib/LanguageContext.tsx)                      *)
(*                                                                         *)
(* lang.storage is localStorage ("null" for a missing item); lang.atMount  *)
(* is what it held when the provider last mounted, lang.touched says that  *)
(* a consumer has set the language or the level since.                     *)
(***************************************************************************)
\* bounds of the model
MaxMounts == 3

LanguageNames == {"english", "spanish", "french"}
LanguageLevels == {"beginner", "intermediate", "advanced"}

EmptyStorage == [preferredLanguage |-> "null", preferredLanguageLevel |-> "null"]

LangIdle ==
  lang = [ language |-> "english", languageLevel |-> "beginner",
           storage |-> EmptyStorage, atMount |-> EmptyStorage,
           mounted |-> FALSE, touched |-> FALSE, mounts |-> 0 ]

LangInit ==
  \E l \in LanguageNames \cup {"null"}, v \in LanguageLevels \cup {"null"} :
    lang = [ language |-> "english", languageLevel |-> "beginner",
             storage |-> [preferredLanguage |-> l, preferredLanguageLevel |-> v],
             atMount |-> [preferredLanguage |-> l, preferredLanguageLevel |-> v],
             mounted |-> FALSE, touched |-> FALSE, mounts |-> 0 ]

\* the first effect: localStorage.setItem of both preferences
SavePreferences(c) ==
  [c EXCEPT !.storage = [preferredLanguage |-> c.language,
                         preferredLanguageLevel |-> c.languageLevel]]

\* the second effect: localStorage.getItem of both, applied when truthy
LoadPreferences(c) ==
  LET savedLanguage == c.storage.preferredLanguage
      savedLevel == c.storage.preferredLanguageLevel
  IN [c EXCEPT !.language = IF savedLanguage # "null" THEN savedLanguage ELSE @,
               !.languageLevel = IF savedLevel # "null" THEN savedLevel ELSE @]

\* the effects of the first render in the order of their declaration, and
\* the saving effect of the render that follows when the state has changed
MountEffects(c) ==
  LET loaded == LoadPreferences(SavePreferences(c))
  IN IF <<loaded.language, loaded.languageLevel>> # <<c.language, c.languageLevel>>
     THEN SavePreferences(loaded)
     ELSE loaded

\* LanguageProvider mounts
LangMount ==
  /\ LangOthers
  /\ ~lang.mounted
  /\ lang' = [MountEffects(lang) EXCEPT !.mounted = TRUE, !.mounts = @ + 1]

\* setLanguage(l) by a consumer, and the saving effect of the next render
SetLanguage(l) ==
  /\ LangOthers
  /\ lang.mounted
  /\ l # lang.language
  /\ lang' = SavePreferences([lang EXCEPT !.language = l, !.touched = TRUE])

\* setLanguageLevel(v) by a consumer, and the saving effect of the next render
SetLanguageLevel(v) ==
  /\ LangOthers
  /\ lang.mounted
  /\ v # lang.languageLevel
  /\ lang' = SavePreferences([lang EXCEPT !.languageLevel = v, !.touched = TRUE])

\* the page is reloaded: the state is gone, localStorage stays
LangReload ==
  /\ LangOthers
  /\ lang.mounted
  /\ lang.mounts < MaxMounts
  /\ lang' = [lang EXCEPT !.language = "english", !.languageLevel = "beginner",
                          !.mounted = FALSE, !.touched = FALSE,
                          !.atMount = lang.storage]

LangNext ==
  \/ LangMount
  \/ \E l \in LanguageNames : SetLanguage(l)
  \/ \E v \in LanguageLevels : SetLanguageLevel(v)
  \/ LangReload

(***************************************************************************)
(* useDID (src/src/hooks/useDID.ts): generateTalkingVideo, pollTalkStatus  *)
(*                                                                         *)
(* The hook is taken after connect() has settled, with or without success, *)
(* and with or without a defaultAvatar.  error = "" stands for null.  The  *)
(* calls of generateTalkingVideo are made one after the other.  onError    *)
(* holds the message of the last onError call of the current call.         *)
(***************************************************************************)
\* bound of the model
MaxGenerates == 2

maxAttempts == 60

NoCall == [phase |-> "idle", attempts |-> 0, returned |-> "pending", failure |-> "none"]

DidIdle ==
  did = [ isConnected |-> FALSE, authToken |-> FALSE, avatar |-> FALSE,
          isLoading |-> FALSE, error |-> "", onError |-> "",
          call |-> NoCall, calls |-> 0 ]

DidInit ==
  \E connected \in BOOLEAN, defaultAvatar \in BOOLEAN :
    did = [ isConnected |-> connected, authToken |-> connected,
            avatar |-> defaultAvatar,
            isLoading |-> FALSE,
            error |-> IF connected THEN "" ELSE "Failed to connect: 401",
            onError |-> "",
            call |-> NoCall, calls |-> 0 ]

\* disconnect
DidDisconnect ==
  /\ DidOthers
  /\ did.isConnected \/ did.authToken
  /\ did' = [did EXCEPT !.authToken = FALSE, !.isConnected = FALSE]

\* the catch of generateTalkingVideo, and its early returns: the message is
\* reported and null is returned
ReportAndReturnNull(d, errorMessage, failure) ==
  [d EXCEPT !.error = errorMessage, !.onError = errorMessage,
            !.call = [phase |-> "done", attempts |-> d.call.attempts,
                      returned |-> "null", failure |-> failure]]

\* generateTalkingVideo(text) up to the await of the POST to /talks
GenerateTalkingVideo ==
  /\ DidOthers
  /\ did.call.phase \in {"idle", "done"}
  /\ did.calls < MaxGenerates
  /\ LET d == [did EXCEPT !.calls = @ + 1, !.onError = "", !.call = NoCall]
     IN did' = IF ~d.isConnected \/ ~d.authToken
               THEN ReportAndReturnNull(d, "Not connected to DID API", "precondition")
               ELSE IF ~d.avatar
               THEN ReportAndReturnNull(d, "No avatar selected", "precondition")
               ELSE [d EXCEPT !.isLoading = TRUE, !.error = "", !.call.phase = "creating"]

\* the POST fails or answers with an error status
DidCreateFails(errorMessage) ==
  /\ DidOthers
  /\ did.call.phase = "creating"
  /\ did' = [ReportAndReturnNull(did, errorMessage, "create") EXCEPT !.isLoading = FALSE]

\* what generateTalkingVideo does with the result of pollTalkStatus
AfterPoll(d, videoUrl, failure) ==
  [d EXCEPT !.isLoading = FALSE,
            !.call.phase = "done",
            !.call.returned = videoUrl,
            !.call.failure = failure]

\* the POST answers with the talk id: pollTalkStatus begins
DidTalkCreated ==
  /\ DidOthers
  /\ did.call.phase = "creating"
  /\ did' = IF ~did.authToken
            THEN AfterPoll(did, "null", "token")
            ELSE [did EXCEPT !.call.phase = "polling"]

\* a status request answers 'done' with the result_url
DidPollDone ==
  /\ DidOthers
  /\ did.call.phase = "polling"
  /\ did' = AfterPoll(did, "url", "none")

\* a status request fails ("request") or answers with status 'error'
\* ("status"): the throw is caught inside the loop, which returns null
DidPollFails(failure) ==
  /\ DidOthers
  /\ did.call.phase = "polling"
  /\ did' = AfterPoll(did, "null", failure)

\* a status request answers with a job still running: 5 seconds later the
\* next attempt, or after maxAttempts the throw that follows the loop
DidPollPending ==
  /\ DidOthers
  /\ did.call.phase = "polling"
  /\ LET d == [did EXCEPT !.call.attempts = @ + 1]
     IN did' = IF d.call.attempts < maxAttempts
               THEN d
               ELSE [ReportAndReturnNull(d, "Timeout waiting for talking video", "timeout")
                       EXCEPT !.isLoading = FALSE]

CreateErrors == {"Failed to generate talking video: 500"}
PollFailures == {"request", "status"}

DidNext ==
  \/ DidDisconnect
  \/ GenerateTalkingVideo
  \/ \E e \in CreateErrors : DidCreateFails(e)
  \/ DidTalkCreated
  \/ DidPollDone
  \/ \E f \in PollFailures : DidPollFails(f)
  \/ DidPollPending

(***************************************************************************)
(* Specifications: one per component, the other components at rest         *)
(***************************************************************************)
InitMic == DidIdle /\ LangIdle /\ PageIdle /\ AcctIdle /\ VoiceInit /\ NotesInit /\ BotInit /\ MicInit /\ ChatIdle /\ StoreIdle
SpecMic == InitMic /\ [][MicNext]_vars

InitChat == DidIdle /\ LangIdle /\ PageIdle /\ AcctIdle /\ VoiceInit /\ NotesInit /\ BotInit /\ MicInit /\ ChatInit /\ StoreIdle
SpecChat == InitChat /\ [][ChatNext]_vars

InitSettings == DidIdle /\ LangIdle /\ PageIdle /\ AcctIdle /\ VoiceInit /\ NotesInit /\ BotInit /\ MicInit /\ ChatIdle /\ StoreInit
SpecSettings == InitSettings /\ [][SettingsNext]_vars

InitBot == DidIdle /\ LangIdle /\ PageIdle /\ AcctIdle /\ VoiceInit /\ NotesInit /\ BotInit /\ MicInit /\ ChatIdle /\ StoreIdle
SpecBot == InitBot /\ [][BotNext]_vars

InitNotes == DidIdle /\ LangIdle /\ PageIdle /\ AcctIdle /\ VoiceInit /\ NotesInit /\ BotInit /\ MicInit /\ ChatIdle /\ StoreIdle
SpecNotes == InitNotes /\ [][NotesNext]_vars

InitVoice == DidIdle /\ LangIdle /\ PageIdle /\ AcctIdle /\ VoiceInit /\ NotesInit /\ BotInit /\ MicInit /\ ChatIdle /\ StoreIdle
SpecVoice == InitVoice /\ [][VoiceNext]_vars

InitAccount == DidIdle /\ LangIdle /\ PageIdle /\ AcctIdle /\ VoiceInit /\ NotesInit /\ BotInit /\ MicInit /\ ChatIdle /\ StoreInit
SpecAccount == InitAccount /\ [][AcctNext]_vars

InitPage == DidIdle /\ LangIdle /\ PageInit /\ AcctIdle /\ VoiceInit /\ NotesInit /\ BotInit /\ MicInit /\ ChatIdle
SpecPage == InitPage /\ [][PageNext]_vars

InitLang == DidIdle /\ LangInit /\ PageIdle /\ AcctIdle /\ VoiceInit /\ NotesInit /\ BotInit /\ MicInit /\ ChatIdle /\ StoreIdle
SpecLang == InitLang /\ [][LangNext]_vars

InitChatFull == DidIdle /\ LangIdle /\ PageIdle /\ AcctIdle /\ VoiceInit /\ NotesInit /\ BotInit /\ MicInit /\ ChatFull /\ StoreIdle
SpecChatFull == InitChatFull /\ [][ChatNext]_vars

InitDid == DidInit /\ LangIdle /\ PageIdle /\ AcctIdle /\ VoiceInit /\ NotesInit /\ BotInit /\ MicInit /\ ChatIdle /\ StoreIdle
SpecDid == InitDid /\ [][DidNext]_vars

InitHistory == DidIdle /\ LangIdle /\ PageIdle /\ AcctIdle /\ VoiceInit /\ NotesInit /\ BotInit /\ MicInit /\ ChatIdle /\ StoreInit
SpecHistory == InitHistory /\ [][HistoryNext]_vars

\* C2: once speech has started in a recording, a level that stays below 0.05
\* for autoStopSilence milliseconds stops the recording automatically
C2_SilenceAutoStop ==
  ~(mic.recorder = "recording" /\ mic.speechSeen /\ mic.quiet > AutoStopTicks)

\* C3: no recording stays active beyond maxDuration plus one timer tick
C3_MaxDurationRespected ==
  mic.recorder = "recording" => mic.elapsed <= maxDuration + 1

(***************************************************************************)
(* useChat: streaming assembly and cancellation                            *)
(***************************************************************************)
RECURSIVE ConcatContent(_)
ConcatContent(ts) ==
  IF ts = <<>> THEN <<>> ELSE ConcatContent(SubSeq(ts, 1, Len(ts) - 1)) \o ChunkContent(ts[Len(ts)])

RECURSIVE ConcatText(_)
ConcatText(ts) ==
  IF ts = <<>> THEN <<>> ELSE ConcatText(SubSeq(ts, 1, Len(ts) - 1)) \o <<ts[Len(ts)]>>

AssistantContent(r) ==
  {chat.messages[i].content : i \in {j \in 1..Len(chat.messages) :
                                      chat.messages[j].id = req[r].assistantId}}

C9_AbortAlwaysReported ==
  \A r \in Requests :
    (req[r].phase = "done" /\ req[r].abortedIn # "none")
      => /\ req[r].errorSet = "Request was cancelled"
         /\ req[r].onError = "Request was cancelled"
         /\ ~req[r].loadingAtEnd

\* C9 (amended): an abort before the response arrives ends addMessage with
\* 'Request was cancelled' reported and isLoading false; an abort while the
\* stream is read ends addMessage with isLoading false and no error reported
C9_AbortOutcome ==
  \A r \in Requests :
    req[r].phase = "done" =>
      /\ req[r].abortedIn \in {"fetching", "parsing"}
            => /\ req[r].errorSet = "Request was cancelled"
               /\ req[r].onError = "Request was cancelled"
               /\ ~req[r].loadingAtEnd
      /\ req[r].abortedIn = "reading"
            => /\ req[r].errorSet = ""
               /\ req[r].onError = ""
               /\ ~req[r].loadingAtEnd

\* one request cancelled before its response, another while streaming
C9_Witness ==
  \E r, q \in Requests :
    /\ req[r].phase = "done" /\ req[r].abortedIn = "fetching"
    /\ req[q].phase = "done" /\ req[q].abortedIn = "reading" /\ req[q].chunks # <<>>
    /\ ~chat.isLoading

(***************************************************************************)
(* Firestore helpers: frame conditions                                     *)
(***************************************************************************)
Fields(d) == IF exists(d) THEN DOMAIN d ELSE {}

\* C7: a completing saveUserSettings(user, s) writes only users/{uid}, keeps
\* every stored field not named in s, sets createdAt only on a document that
\* did not exist and never changes it afterwards, and refreshes updatedAt
C7_SaveUserSettingsFrame ==
  [][\A k \in SaveCalls :
       (fs.saves[k].phase = "setDoc" /\ fs'.saves[k].phase = "done")
         => LET c == fs.saves[k]
                before == users[c.user]
                after == users'[c.user]
            IN /\ \A v \in Uids \ {c.user} : users'[v] = users[v]
               /\ talk_history' = talk_history
               /\ exists(after)
               /\ \A f \in Fields(before) \ (DOMAIN c.settings \cup {"updatedAt"}) :
                    f \in Fields(after) /\ after[f] = before[f]
               /\ ~exists(before) => after.createdAt = fs.now
               /\ after.updatedAt = fs.now]_vars

\* C8: a talk_history document is created under a fresh id that it stores as
\* its id field, is never rewritten, and can afterwards only be deleted
C8_TalkHistoryImmutable ==
  [][\A d \in DocIds :
       /\ exists(talk_history[d]) => talk_history'[d] \in {talk_history[d], NoDoc}
       /\ (~exists(talk_history[d]) /\ exists(talk_history'[d]))
            => /\ talk_history'[d].id = d
               /\ d \notin fs.usedIds]_vars

\* one conversation saved and still stored, another saved and deleted since
C8_Witness ==
  \E d, e \in DocIds :
    /\ exists(talk_history[d]) /\ talk_history[d].id = d
    /\ e \in fs.usedIds /\ ~exists(talk_history[e])
    /\ fs.del.phase = "idle"

(***************************************************************************)
(* useChatbot: order of the message list                                   *)
(***************************************************************************)
Position(id) == CHOOSE i \in 1..Len(bot.messages) : bot.messages[i].id = id
DocOf(k, sender) ==
  {i \in 1..Len(bot.docs) : bot.docs[i].send = k /\ bot.docs[i].sender = sender}

SummaryDocs ==
  {notes.note_summaries[i] : i \in 1..Len(notes.note_summaries)}
    \cup {notes.summaries[i] : i \in 1..Len(notes.summaries)}

\* C6: every note summary document carries as sourceNoteIds the ids of
\* exactly the notes its summary was generated from
C6_SourceNoteIdsExact ==
  \A d \in SummaryDocs : d.sourceNoteIds = d.summary

(***************************************************************************)
(* Voice conversation page                                                 *)
(***************************************************************************)
\* C1: a voice session writes at most one talk_history document
C1_OneTalkHistoryPerSession ==
  Cardinality({d \in DocIds : exists(talk_history[d])}) <= 1

\* C10: when /api/transcribe answers with an empty or whitespace-only text,
\* processRecording removes the placeholder, appends the assistant's prompt,
\* sends no request to /api/chat or /api/text-to-speech, sets no error and
\* ends with isLoading false
C10_EmptyTranscriptionHandled ==
  [][(/\ voice.proc.phase = "transcribe"
      /\ voice'.proc.transcription # "?"
      /\ Trim(voice'.proc.transcription) = "")
       => /\ voice'.messages =
               Append(SelectSeq(voice.messages, LAMBDA msg : msg.id # voice.proc.tempId),
                      [id |-> voice.now, role |-> "assistant", content |-> "empty"])
          /\ voice'.chatRequests = voice.chatRequests
          /\ voice'.ttsRequests = voice.ttsRequests
          /\ voice'.proc.phase = "idle"
          /\ voice'.error = voice.error
          /\ voice'.isLoading = FALSE]_vars

\* a recording whose transcription was a blank has been processed
C10_Witness ==
  /\ voice.proc.phase = "idle"
  /\ voice.proc.transcription = " "
  /\ voice.messages[Len(voice.messages)].content = "empty"
  /\ \A i \in 1..Len(voice.messages) : voice.messages[i].content # "..."
  /\ ~voice.isLoading

(***************************************************************************)
(* Account deletion, settings page, language preference                    *)
(***************************************************************************)
NoDataOf(user) ==
  /\ ~exists(users[user])
  /\ HistoryOf(talk_history, user) = {}
  /\ \A coll \in OtherCollections : <<coll, user>> \notin acct.owned

\* C11: when deleteUserData(user) completes, no document of the user is
\* left in users, talk_history, notes, note_summaries or the chat messages
C11_DeleteUserDataDeletesAll ==
  [][(fs.del.phase = "deleteDocs" /\ fs'.del.phase = "idle")
       => NoDataOf(fs.del.user)']_vars

\* C12: when handleDeleteAccount fails, the user's settings and talk
\* history are as they were when it started and the account exists
C12_DeleteAccountAllOrNothing ==
  [][(acct.phase = "deleteUserData" /\ acct'.phase = "idle"
        /\ acct.user \in acct'.accounts)
       => /\ users'[acct.user] = acct.before.settings
          /\ HistoryOf(talk_history', acct.user) = acct.before.history]_vars

SettingsOf(userDoc) ==
  <<userDoc.language, userDoc.languageLevel, userDoc.voice, userDoc.theme>>

\* C13: the settings page issues no save before the stored settings have
\* been fetched and applied, and while the user changes nothing the stored
\* language, level, voice and theme stay as they were
C13_NoSaveDuringLoad ==
  /\ sp.requests # <<>> => sp.loaded
  /\ (exists(sp.stored) /\ ~sp.changed)
       => /\ exists(users["u1"])
          /\ SettingsOf(users["u1"]) = SettingsOf(sp.stored)

\* C18: when localStorage held a language and a level at the mount of
\* LanguageProvider, the context has these values after mounting and
\* localStorage still holds them
C18_PreferencePersisted ==
  (/\ lang.mounted /\ ~lang.touched
   /\ lang.atMount.preferredLanguage # "null"
   /\ lang.atMount.preferredLanguageLevel # "null")
    => /\ lang.language = lang.atMount.preferredLanguage
       /\ lang.languageLevel = lang.atMount.preferredLanguageLevel
       /\ lang.storage = lang.atMount

(***************************************************************************)
(* Voice conversation page: recorders and saved messages                   *)
(***************************************************************************)
\* C14: a recording is started only while no recording is active, no audio
\* is playing and no recording is being processed, so that at most one
\* recorder is recording
C14_SingleRecorder ==
  [][(voice'.recordings = voice.recordings + 1 /\ voice'.recorder = "recording")
       => /\ voice.recorder # "recording"
          /\ ~voice.isSpeaking
          /\ ~voice.isLoading
          /\ voice'.orphans = 0]_vars

\* C20: the messages stored in a talk_history document are all the messages
\* of the session at the moment of the save, in order, the user's utterance
\* and the assistant's reply of the exchange that made the save included
C20_SavedMessagesComplete ==
  [][\A d \in DocIds :
       (~exists(talk_history[d]) /\ exists(talk_history'[d]))
         => talk_history'[d].messages =
              [i \in 1..Len(voice'.messages) |->
                 [role |-> voice'.messages[i].role, content |-> voice'.messages[i].content]]]_vars

(***************************************************************************)
(* Where NoteChatbot stores its summaries                                  *)
(***************************************************************************)
Range(f) == {f[i] : i \in 1..Len(f)}

\* C19: a summary NoteChatbot has saved is returned by the summary query of
\* the notes page's next load, and clearAllSummaries removes it
C19_ChatbotSummaryOnNotesPage ==
  [][/\ (notes.loading /\ ~notes'.loading)
        => Range(notes.summaries) \subseteq Range(notes'.shown)
     /\ (notes.note_summaries # <<>> /\ notes'.note_summaries = <<>>)
        => notes'.summaries = <<>>]_vars

(***************************************************************************)
(* useChat: placeholders, stored messages, isLoading                       *)
(***************************************************************************)
InFlight(r) == req[r].phase \in {"fetching", "reading", "parsing"}

\* C15: once addMessage has resolved, the assistant placeholder it created
\* has isLoading false
C15_PlaceholderSettled ==
  \A r \in Requests :
    req[r].phase = "done"
      => \A i \in 1..Len(chat.messages) :
           chat.messages[i].id = req[r].assistantId => ~chat.messages[i].isLoading

\* C16: the messages list never has more than maxMessagesToStore messages
C16_MaxMessagesRespected ==
  Len(chat.messages) <= maxMessagesToStore

\* C17: isLoading is true exactly while a request is in flight, and a
\* request that is in flight and not aborted can be cancelled
C17_LoadingWhileInFlight ==
  /\ chat.isLoading <=> \E r \in Requests : InFlight(r)
  /\ (\E r \in Requests : InFlight(r) /\ ~req[r].aborted) => chat.abortController # 0

\* C21: a recording of the voice page is stopped no later than 5 seconds
\* after it began: once the silenceTimer of the current recorder has fired,
\* the recorder is no longer recording
C21_AutoStopAfterFiveSeconds ==
  voice.elapsed => voice.recorder # "recording"

\* C22: the audio of a cancelled recording is never handed to
\* onRecordingComplete: the stop event of a recorder stopped by
\* cancelRecording does not invoke onRecordingComplete
C22_CancelDoesNotSave ==
  [][(mic.cancelled /\ mic.recorder = "stopping" /\ mic'.recorder = "inactive")
       => mic'.completeCalls = mic.completeCalls]_vars

\* C23: a silence timeout is armed only after a level above 0.1, and a
\* recording is stopped by it only when the level has stayed below 0.05 for
\* autoStopSilence milliseconds
C23_SilenceOnlyAfterQuiet ==
  /\ mic.silenceTimeout > 0 => mic.speechSeen
  /\ (mic.silenceTimeout = 0 /\ mic.recorder = "stopping") => mic.quiet >= AutoStopTicks

\* the visualizer loop is not started, so that no silence timeout is armed
C23_NeverArmed ==
  ~mic.raf /\ mic.silenceTimeout = -1

\* C24: when the OpenAI call of a send fails, the hook's error is set,
\* loading is false and no 'ai' document is written for that send
C24_OpenAIFailureReported ==
  [][\A k \in Sends :
       (~bot.failed[k] /\ bot'.failed[k])
         => /\ bot'.error # ""
            /\ ~bot'.loading
            /\ \A i \in 1..Len(bot'.docs) :
                 ~(bot'.docs[i].send = k /\ bot'.docs[i].sender = "ai")]_vars

\* C25: a call of generateTalkingVideo whose polling failed (a status
\* request that failed, a job status 'error', or the timeout) has returned
\* null with the error state set and onError called, and isLoading is false
C25_PollFailureSurfaced ==
  (did.call.phase = "done" /\ did.call.failure \in {"request", "status", "timeout"})
    => /\ did.call.returned = "null"
       /\ did.error # ""
       /\ did.onError # ""
       /\ ~did.isLoading

====
